---- MODULE Spec2Model ----
(***************************************************************************)
(* Job orchestration of the crawl service: the Job Store operations of     *)
(* app/database.py and the background task of app/main.py                  *)
(* (process_crawl_job, start_firecrawl_job, poll_firecrawl_status,         *)
(* extract_and_store_results), run against an external provider whose      *)
(* answers are chosen nondeterministically.                                *)
(*                                                                         *)
(* One action is one awaited operation of the task (a store write, an      *)
(* HTTP call, a sleep) together with the synchronous code that follows it  *)
(* up to the next await.                                                   *)
(***************************************************************************)
EXTENDS Integers, Sequences, FiniteSets, TLC

----------------------------------------------------------------------------
(* Bounds of the model.                                                    *)

\* Longest page list a "completed" status response carries.
MaxPages == 2
\* Longest time one status request takes (the clock advances by 0..MaxReqDuration).
MaxReqDuration == 1
\* settings.crawl_timeout_seconds and settings.polling_interval_seconds are
\* read from the environment (config.py, defaults 300 and 5); the model runs
\* the service configured with these small values.
crawl_timeout_seconds == 8
polling_interval_seconds == 1

(* Program constants.                                                      *)
max_retries == 3
max_consecutive_errors == 5
start_wait_time == 2

----------------------------------------------------------------------------
(* Values.                                                                 *)

\* Python None, SQL NULL, JSON null.
NULL == "<null>"
\* A key that is absent from a JSON object.
MISSING == "<missing>"

JobIds == {"j1"}
Urls == {"https://example.com"}
\* Texts are sequences of characters, so that lower() and "in" are computed.
Keywords == {<<"A", "b">>}
Texts == {<<"a", "B">>, <<"B">>}
RemoteIds == {"r1"}
ProviderErrors == {"site unreachable"}

\* str.lower() on one character and on a text.
LowerChar(c) ==
    CASE c = "A" -> "a"
      [] c = "B" -> "b"
      [] OTHER -> c

lower(s) == [i \in 1..Len(s) |-> LowerChar(s[i])]

\* Python's  sub in s  on texts: sub occurs in s as a contiguous slice.
In(sub, s) ==
    \E i \in 0..(Len(s) - Len(sub)) : SubSeq(s, i + 1, i + Len(sub)) = sub

\* Page objects of a status response.  markdown is absent, null or a text;
\* metadata is absent, null or an object with sourceURL and title.
Markdowns ==
    {[tag |-> "missing", val |-> <<>>], [tag |-> "none", val |-> <<>>]}
        \cup {[tag |-> "str", val |-> t] : t \in Texts}
Metadatas ==
    {[tag |-> "missing", sourceURL |-> "", title |-> ""],
     [tag |-> "none", sourceURL |-> "", title |-> ""],
     [tag |-> "dict", sourceURL |-> "u1", title |-> "t1"]}
\* The page shapes the model feeds in: every markdown with a full metadata
\* object, and a matching text with every metadata.
Pages ==
    {p \in [markdown : Markdowns, metadata : Metadatas] :
        p.metadata.tag = "dict" \/ p.markdown = [tag |-> "str", val |-> <<"a", "B">>]}

RECURSIVE SeqsUpTo(_, _)
SeqsUpTo(S, n) ==
    IF n = 0 THEN {<<>>}
    ELSE LET shorter == SeqsUpTo(S, n - 1)
         IN  shorter \cup {Append(s, x) : s \in {q \in shorter : Len(q) = n - 1}, x \in S}

\* The "data" member of a status response: absent, null, a list of pages,
\* or a value that is no list (a number).
NoPages == <<>>
DataValues ==
    {[tag |-> "missing", val |-> NoPages], [tag |-> "none", val |-> NoPages],
     [tag |-> "scalar", val |-> NoPages]}
        \cup {[tag |-> "list", val |-> ps] : ps \in SeqsUpTo(Pages, MaxPages)}

\* The "error" member of a status response: absent, null or a text.
ErrorValues == {MISSING, NULL} \cup ProviderErrors

\* What one call of POST /v2/crawl yields.
StartResponses ==
    {[kind |-> "ok", id |-> i] : i \in RemoteIds \cup {NULL}}
        \cup {[kind |-> k, id |-> NULL] : k \in {"non200", "connect_error", "other_error"}}

\* What one call of GET /v2/crawl/{id} yields.  "bad_body" is a 200 answer
\* whose body response.json() cannot decode; "other_error" is an exception
\* of the request that is no ConnectError (a read timeout); "fatal" is an
\* exception raised outside the loop's inner try block (by the HTTP client
\* itself) and caught at line 508.
NoData == [tag |-> "missing", val |-> NoPages]
StatusResponses ==
    {[kind |-> k, status |-> "", data |-> NoData, error |-> MISSING] :
        k \in {"non200", "connect_error", "other_error", "bad_body", "fatal"}}
        \cup {[kind |-> "ok", status |-> "scraping", data |-> NoData, error |-> MISSING]}
        \cup {[kind |-> "ok", status |-> "completed", data |-> d, error |-> MISSING] :
                d \in DataValues}
        \cup {[kind |-> "ok", status |-> "failed", data |-> NoData, error |-> e] :
                e \in ErrorValues}

----------------------------------------------------------------------------
(* The Job Store (app/database.py, app/models.py).                         *)

Statuses == {"pending", "in_progress", "completed", "failed"}

\* datetime.utcnow() as stored in created_at and completed_at: some non-null
\* timestamp.
Timestamp == "<utcnow>"

\* Python truthiness of an optional string:  if error:  /  if not job_id:
Truthy(s) == s # NULL /\ s # ""

\* CrawlJob(input_url, keyword, status='pending'): the nullable columns
\* start NULL.
CrawlJob(input_url, keyword) ==
    [input_url |-> input_url, keyword |-> keyword, status |-> "pending",
     firecrawl_job_id |-> NULL, created_at |-> Timestamp, completed_at |-> NULL,
     error |-> NULL]

\* Faulty variant: the new row is all the table holds afterwards.
create_job_Truncating(tbl, id, input_url, keyword) ==
    [k \in {id} |-> CrawlJob(input_url, keyword)]

\* create_job: insert the row under a fresh id and commit.
create_job(tbl, id, input_url, keyword) ==
    [k \in DOMAIN tbl \cup {id} |->
        IF k = id THEN CrawlJob(input_url, keyword) ELSE tbl[k]]

\* Faulty variant: completed_at is stamped for completed only.
update_job_status_NoStamp(tbl, job_id, status, error, firecrawl_job_id) ==
    [k \in DOMAIN tbl |->
        IF k # job_id THEN tbl[k]
        ELSE [tbl[k] EXCEPT
                !.status = status,
                !.error = IF Truthy(error) THEN error ELSE @,
                !.firecrawl_job_id =
                    IF Truthy(firecrawl_job_id) THEN firecrawl_job_id ELSE @,
                !.completed_at = IF status = "completed" THEN Timestamp ELSE @]]

\* Faulty variant: firecrawl_job_id is written on every call, also when the
\* caller passed none.
update_job_status_ClearsId(tbl, job_id, status, error, firecrawl_job_id) ==
    [k \in DOMAIN tbl |->
        IF k # job_id THEN tbl[k]
        ELSE [tbl[k] EXCEPT
                !.status = status,
                !.error = IF Truthy(error) THEN error ELSE @,
                !.firecrawl_job_id = firecrawl_job_id,
                !.completed_at =
                    IF status \in {"completed", "failed"} THEN Timestamp ELSE @]]

\* Faulty variant: error is written on every call, also when the caller
\* passed none.
update_job_status_NullsError(tbl, job_id, status, error, firecrawl_job_id) ==
    [k \in DOMAIN tbl |->
        IF k # job_id THEN tbl[k]
        ELSE [tbl[k] EXCEPT
                !.status = status,
                !.error = error,
                !.firecrawl_job_id =
                    IF Truthy(firecrawl_job_id) THEN firecrawl_job_id ELSE @,
                !.completed_at =
                    IF status \in {"completed", "failed"} THEN Timestamp ELSE @]]

\* Faulty variant: the UPDATE has no WHERE clause.
update_job_status_NoWhere(tbl, job_id, status, error, firecrawl_job_id) ==
    [k \in DOMAIN tbl |->
        [tbl[k] EXCEPT
            !.status = status,
            !.error = IF Truthy(error) THEN error ELSE @,
            !.firecrawl_job_id =
                IF Truthy(firecrawl_job_id) THEN firecrawl_job_id ELSE @,
            !.completed_at =
                IF status \in {"completed", "failed"} THEN Timestamp ELSE @]]

\* update_job_status: UPDATE crawl_jobs SET ... WHERE id = job_id, commit.
update_job_status(tbl, job_id, status, error, firecrawl_job_id) ==
    [k \in DOMAIN tbl |->
        IF k # job_id THEN tbl[k]
        ELSE [tbl[k] EXCEPT
                !.status = status,
                !.error = IF Truthy(error) THEN error ELSE @,
                !.firecrawl_job_id =
                    IF Truthy(firecrawl_job_id) THEN firecrawl_job_id ELSE @,
                !.completed_at =
                    IF status \in {"completed", "failed"} THEN Timestamp ELSE @]]

\* Faulty variant: the new row replaces the rows stored before.
create_result_Replace(tbl, job_id, page_url, page_title, content_snippet) ==
    <<[id |-> Len(tbl) + 1, job_id |-> job_id, page_url |-> page_url,
       page_title |-> page_title, content_snippet |-> content_snippet]>>

\* create_result: append a row to crawl_results and commit.
create_result(tbl, job_id, page_url, page_title, content_snippet) ==
    Append(tbl, [id |-> Len(tbl) + 1, job_id |-> job_id, page_url |-> page_url,
                 page_title |-> page_title, content_snippet |-> content_snippet])

\* get_job_by_id: the row with that id, or None.
get_job_by_id(tbl, job_id) ==
    IF job_id \in DOMAIN tbl
    THEN [found |-> TRUE, row |-> tbl[job_id]]
    ELSE [found |-> FALSE, row |-> CrawlJob("", <<>>)]

\* get_results_by_job_id: the job's rows in creation order.
get_results_by_job_id(tbl, job_id) ==
    SelectSeq(tbl, LAMBDA r : r.job_id = job_id)

----------------------------------------------------------------------------
(* The API key check (app/auth.py).                                        *)

\* settings.app_api_key, read from APP_API_KEY.
app_api_key == "key-1"
\* The X-API-Key header of a request: absent, empty, another key, the key.
ApiKeys == {NULL, "", "key-2", app_api_key}

\* Faulty variant: any non-empty key is let through.
verify_api_key_AnyKey(x_api_key) == Truthy(x_api_key)

\* verify_api_key: TRUE when the dependency returns, FALSE when it raises
\* HTTPException 401.
verify_api_key(x_api_key) == Truthy(x_api_key) /\ x_api_key = app_api_key

----------------------------------------------------------------------------
(* The pure parts of the background task (app/main.py).                    *)

\* The texts the task writes into the error column.
StartFailedMsg ==
    "Failed to start Firecrawl job after 3 retry attempts. Firecrawl service may be unavailable."
NoResultsMsg == "Failed to retrieve crawl results from Firecrawl"
TimeoutMsg ==
    "Crawl job timed out after " \o ToString(crawl_timeout_seconds) \o " seconds"
StatusCheckFailedMsg ==
    "Firecrawl status check failed " \o ToString(max_consecutive_errors)
        \o " times consecutively"
UnreachableMsg == "Firecrawl service unreachable"
DefaultRemoteError == "Firecrawl job failed"

\* str(e) of the exceptions the model raises.
DbError == "database error"
ReadTimeout == "read timeout"
DecodeError == "body is not JSON"
NotIterable == "object is not iterable"
ClientError == "client error"

\* str() of the "error" member inside the f-string (str(None) is "None").
Str(v) == IF v = NULL THEN "None" ELSE v

PollingErrorMsg(desc) == "Polling error: " \o desc
FatalErrorMsg(desc) == "Fatal error polling Firecrawl: " \o desc
\* Faulty variant: the remote text is not put into the message.
FirecrawlErrorMsg_NoText(text) == "Firecrawl error"
FirecrawlErrorMsg(text) == "Firecrawl error: " \o text
InternalErrorMsg(desc) == "Internal error: " \o desc

\* dict.get(key, default) on a member that may be absent.
GetOr(v, default) == IF v = MISSING THEN default ELSE v

\* Faulty variant: the last attempt sleeps and tries once more.
StartOutcome_OneMore(attempt, r) ==
    IF r.kind = "ok"
    THEN [returns |-> TRUE, job_id |-> r.id]
    ELSE IF attempt < max_retries
         THEN [returns |-> FALSE, job_id |-> NULL]
         ELSE [returns |-> TRUE, job_id |-> NULL]

\* start_firecrawl_job, one pass of  for attempt in range(max_retries)  once
\* the POST has answered r: return the id of a 200 answer, else sleep and go
\* round again unless this was the last attempt.
StartOutcome(attempt, r) ==
    IF r.kind = "ok"
    THEN [returns |-> TRUE, job_id |-> r.id]
    ELSE IF attempt < max_retries - 1
         THEN [returns |-> FALSE, job_id |-> NULL]
         ELSE [returns |-> TRUE, job_id |-> NULL]

\* elapsed = datetime.utcnow() - start_time  after d more time units.  The
\* loop only compares elapsed with the timeout, so the model stops counting
\* once elapsed is past the timeout by more than a whole iteration.
ElapsedCap == crawl_timeout_seconds + MaxReqDuration + polling_interval_seconds + 1
Advance(elapsed, d) ==
    IF elapsed + d > ElapsedCap THEN ElapsedCap ELSE elapsed + d

\* Faulty variants of the timeout check: never taken, and taken one unit late.
TimedOut_Never(elapsed) == FALSE
TimedOut_Late(elapsed) == elapsed > crawl_timeout_seconds + 1

\* Faulty variant: the check is taken at the timeout itself.
TimedOut_AtLeast(elapsed) == elapsed >= crawl_timeout_seconds

\* poll_firecrawl_status:  if elapsed > timeout  at the top of the loop.
TimedOut(elapsed) == elapsed > crawl_timeout_seconds

PyNone == [tag |-> "none", val |-> NoPages]

\* data.get("data", []).
DataOf(r) == IF r.data.tag = "missing" THEN [tag |-> "list", val |-> NoPages] ELSE r.data

\* One more failed check: give up with `reason` at the ceiling, else go on.
CountError(count, reason) ==
    IF count >= max_consecutive_errors
    THEN [returns |-> TRUE, data |-> PyNone, error |-> reason, retry_count |-> count]
    ELSE [returns |-> FALSE, data |-> PyNone, error |-> NULL, retry_count |-> count]

\* Faulty variant: a remote status of failed returns the answer's data member
\* beside the error.
PollOutcome_FailedWithData(retry_count, r) ==
    CASE r.kind = "ok" /\ r.status = "completed" ->
            [returns |-> TRUE, data |-> DataOf(r), error |-> NULL, retry_count |-> 0]
      [] r.kind = "ok" /\ r.status = "failed" ->
            [returns |-> TRUE, data |-> DataOf(r),
             error |-> FirecrawlErrorMsg(Str(GetOr(r.error, DefaultRemoteError))),
             retry_count |-> 0]
      [] r.kind = "ok" /\ r.status \notin {"completed", "failed"} ->
            [returns |-> FALSE, data |-> PyNone, error |-> NULL, retry_count |-> 0]
      [] r.kind = "bad_body" -> CountError(0 + 1, PollingErrorMsg(DecodeError))
      [] r.kind = "non200" -> CountError(retry_count + 1, StatusCheckFailedMsg)
      [] r.kind = "connect_error" -> CountError(retry_count + 1, UnreachableMsg)
      [] r.kind = "other_error" ->
            CountError(retry_count + 1, PollingErrorMsg(ReadTimeout))
      [] r.kind = "fatal" ->
            [returns |-> TRUE, data |-> PyNone,
             error |-> FatalErrorMsg(ClientError), retry_count |-> retry_count]

\* poll_firecrawl_status, the body of one loop iteration once the GET has
\* answered r, entered with retry_count.  A 200 answer resets retry_count
\* before its body is decoded.
PollOutcome(retry_count, r) ==
    CASE r.kind = "ok" /\ r.status = "completed" ->
            [returns |-> TRUE, data |-> DataOf(r), error |-> NULL, retry_count |-> 0]
      [] r.kind = "ok" /\ r.status = "failed" ->
            [returns |-> TRUE, data |-> PyNone,
             error |-> FirecrawlErrorMsg(Str(GetOr(r.error, DefaultRemoteError))),
             retry_count |-> 0]
      [] r.kind = "ok" /\ r.status \notin {"completed", "failed"} ->
            [returns |-> FALSE, data |-> PyNone, error |-> NULL, retry_count |-> 0]
      [] r.kind = "bad_body" -> CountError(0 + 1, PollingErrorMsg(DecodeError))
      [] r.kind = "non200" -> CountError(retry_count + 1, StatusCheckFailedMsg)
      [] r.kind = "connect_error" -> CountError(retry_count + 1, UnreachableMsg)
      [] r.kind = "other_error" ->
            CountError(retry_count + 1, PollingErrorMsg(ReadTimeout))
      [] r.kind = "fatal" ->
            [returns |-> TRUE, data |-> PyNone,
             error |-> FatalErrorMsg(ClientError), retry_count |-> retry_count]

\* Python truthiness of what the poll returned:  if not crawled_data.
DataTruthy(d) ==
    CASE d.tag = "none" -> FALSE
      [] d.tag = "list" -> Len(d.val) > 0
      [] OTHER -> TRUE

\* extract_and_store_results on one page: the fields it reads.
PageRaises(page) == page.metadata.tag = "none" \/ page.markdown.tag = "none"
markdown_content(page) == page.markdown.val
page_url(page) == page.metadata.sourceURL
page_title(page) == page.metadata.title

\* Faulty variant: the page text is searched as it is, in its own case.
Matches_CaseSensitive(keyword, page) == In(lower(keyword), markdown_content(page))

\* if keyword_lower in markdown_content.lower()
Matches(keyword, page) == In(lower(keyword), lower(markdown_content(page)))

----------------------------------------------------------------------------
(* State.                                                                  *)

VARIABLES
    jobs,       \* table crawl_jobs: job id -> row
    results,    \* table crawl_results, in creation order
    task,       \* per job: the background task's position and local variables
    hist,       \* per job: what has happened so far (read by the properties only)
    call,       \* the last update_job_status call made on the store directly
    req,        \* a GET /crawl/{job_id} request: its position and its answer
    proc        \* the server process: running or not, and its restarts so far

vars == <<jobs, results, task, hist, call, req, proc>>

NoResponse == [kind |-> "none", status |-> "", data |-> NoData, error |-> MISSING]
TimeoutExit == [kind |-> "timeout", status |-> "", data |-> NoData, error |-> MISSING]

IdleTask ==
    [pc |-> "idle", url |-> "", keyword |-> <<>>, attempt |-> 0,
     firecrawl_job_id |-> NULL, retry_count |-> 0, elapsed |-> 0,
     crawled_data |-> PyNone, idx |-> 0, error_msg |-> NULL]

\* What POST /crawl answered: nothing yet, CrawlResponse(job_id, "started"),
\* or HTTP 500 "Failed to create crawl job".
NoAnswer == [job_id |-> NULL, status |-> ""]
CrawlResponse(job_id) == [job_id |-> job_id, status |-> "started"]
CreateFailed == [job_id |-> NULL, status |-> "500"]
Unauthorized == [job_id |-> NULL, status |-> "401"]

\* The "results" member of a CrawlStatusResponse: None, or the ResultItems.
NoResults == [tag |-> "none", val |-> <<>>]
ResultItems(rows) ==
    [tag |-> "list",
     val |-> [i \in 1..Len(rows) |->
                [page_url |-> rows[i].page_url, page_title |-> rows[i].page_title,
                 content_snippet |-> rows[i].content_snippet]]]

\* What GET /crawl/{job_id} answers: an HTTP error, or the job's fields as
\* get_job_by_id read them together with the results.
ErrorAnswer(code) ==
    [code |-> code, status |-> "", error |-> NULL, completed_at |-> NULL,
     results |-> NoResults]
CrawlStatusResponse(job, res) ==
    [code |-> 200, status |-> job.status, error |-> job.error,
     completed_at |-> job.completed_at, results |-> res]

\* No GET /crawl/{job_id} request has been made.
NoRequest ==
    [pc |-> "idle", job_id |-> NULL, key |-> NULL, job |-> CrawlJob("", <<>>),
     reads |-> 0, response |-> ErrorAnswer(0)]

\* The process after its first startup (lifespan has run init_db).
FirstProcess == [up |-> TRUE, restarts |-> 0]

\* No direct call of the store has been made.
NoCall ==
    [job_id |-> NULL, status |-> "", error |-> NULL, firecrawl_job_id |-> NULL]

NoHistory ==
    [key |-> NULL,            \* the X-API-Key header of the POST /crawl request
     answer |-> NoAnswer,     \* what POST /crawl answered
     tasks |-> 0,             \* background_tasks.add_task calls made
     startCalls |-> 0,        \* POST /v2/crawl calls made
     startReturned |-> FALSE, \* start_firecrawl_job has returned
     startNone |-> FALSE,     \* ... and returned no handle
     startId |-> NULL,        \* the handle it returned
     startLast |-> "",        \* how the last POST /v2/crawl was answered
     waited |-> 0,            \* time slept between start attempts
     polled |-> FALSE,        \* a GET /v2/crawl/{id} has been sent
     consec |-> 0,            \* failed checks in a row (connection error,
                              \* request error or non-200) up to the last answer
     undecoded |-> 0,         \* 200 answers with an undecodable body in a row
     overrun |-> FALSE,       \* elapsed passed the timeout while polling
     lateStart |-> FALSE,     \* a loop iteration began with elapsed > timeout
     returned |-> FALSE,      \* poll_firecrawl_status has returned
     final |-> NoResponse,    \* the answer it returned on
     pollError |-> NULL,      \* the error_message it returned
     stamps |-> 0,            \* committed writes of completed_at, up to 2
     storeRaised |-> FALSE,   \* a Job Store call of the task has raised
     raised |-> FALSE]        \* an exception reached the task's except clause

\* database.py lines 238-239: the UPDATE sets completed_at.
StampsCompletedAt(status) == status \in {"completed", "failed"}

\* The history after update_job_status(status) has committed.
AfterWrite(h, status) ==
    [h EXCEPT !.stamps = IF StampsCompletedAt(status) /\ @ < 2 THEN @ + 1 ELSE @]

Init ==
    /\ jobs = [k \in {} |-> CrawlJob("", <<>>)]
    /\ results = <<>>
    /\ task = [j \in JobIds |-> IdleTask]
    /\ hist = [j \in JobIds |-> NoHistory]
    /\ call = NoCall
    /\ req = NoRequest
    /\ proc = FirstProcess

----------------------------------------------------------------------------
(* process_crawl_job: where the task goes between its awaits.              *)

\* except Exception as e:  error_msg = f"Internal error: {str(e)}"
OnException(t, desc) ==
    [t EXCEPT !.pc = "handler", !.error_msg = InternalErrorMsg(desc)]

\* Faulty variant: the handle is used without the  if not firecrawl_job_id  test.
AfterStart_Unchecked(t, job_id) ==
    [t EXCEPT !.pc = "store_id", !.firecrawl_job_id = job_id]

\* Lines 325-337: the retrier has returned job_id.
AfterStart(t, job_id) ==
    IF ~Truthy(job_id)
    THEN [t EXCEPT !.pc = "write_failed", !.error_msg = StartFailedMsg]
    ELSE [t EXCEPT !.pc = "store_id", !.firecrawl_job_id = job_id]

\* Faulty variant: the poll's error_message is stored as it is, without the
\* fallback text.
AfterPoll_NoDefault(t, data, error) ==
    LET u == [t EXCEPT !.crawled_data = data, !.elapsed = 0, !.retry_count = 0]
    IN  IF ~DataTruthy(data)
        THEN [u EXCEPT !.pc = "write_failed", !.error_msg = error]
        ELSE IF data.tag # "list"
             THEN OnException(u, NotIterable)
             ELSE [u EXCEPT !.pc = "extract", !.idx = 1]

\* Lines 341-353: the poll has returned (data, error).  A value that is no
\* list makes  for page in crawled_data  raise inside the try block.
AfterPoll(t, data, error) ==
    LET u == [t EXCEPT !.crawled_data = data, !.elapsed = 0, !.retry_count = 0]
    IN  IF ~DataTruthy(data)
        THEN [u EXCEPT !.pc = "write_failed",
                       !.error_msg = IF Truthy(error) THEN error ELSE NoResultsMsg]
        ELSE IF data.tag # "list"
             THEN OnException(u, NotIterable)
             ELSE [u EXCEPT !.pc = "extract", !.idx = 1]

\* Faulty variant: the  return  is missing and the task runs on to line 337.
AfterFailedWrite_NoReturn == "store_id"

\* Faulty variant: the  return  is missing, the extraction of line 353 raises
\* on the missing pages and the except clause writes the job again.
AfterFailedWrite_RunsOn == "handler"

\* The  return  after the failed write of line 330 and of line 346, and the
\* end of the try block after the completed write of line 356.
AfterFailedWrite == "done"

\* Faulty variant: the statement after the completed write raises inside the
\* try block and the except clause writes the job a second time.
AfterCompletedWrite_Raises == "handler"

AfterCompletedWrite == "done"

\* Faulty variant: a page whose fields cannot be read ends the loop.
AfterPage_Abort(t) ==
    IF t.idx < Len(t.crawled_data.val) /\ ~PageRaises(t.crawled_data.val[t.idx])
    THEN [t EXCEPT !.idx = @ + 1]
    ELSE [t EXCEPT !.pc = "write_completed"]

\* for page in crawled_data: the next page, or the end of the extraction.
AfterPage(t) ==
    IF t.idx < Len(t.crawled_data.val)
    THEN [t EXCEPT !.idx = @ + 1]
    ELSE [t EXCEPT !.pc = "write_completed"]

----------------------------------------------------------------------------
(* Actions.                                                                *)

\* Faulty variant: the exception of the store call is swallowed and the task
\* goes on as if the write had been committed.
StoreRaises_Ignored(j) ==
    /\ task' = [task EXCEPT ![j] =
                    [@ EXCEPT !.pc = CASE @ = "queued" -> "start"
                                       [] @ = "store_id" -> "poll"
                                       [] OTHER -> "done"]]
    /\ hist' = [hist EXCEPT ![j].storeRaised = TRUE]
    /\ UNCHANGED <<jobs, results>>

\* A Job Store call of the task raised: the except clause of line 359 takes over.
StoreRaises(j) ==
    /\ task' = [task EXCEPT ![j] = OnException(@, DbError)]
    /\ hist' = [hist EXCEPT ![j].storeRaised = TRUE, ![j].raised = TRUE]
    /\ UNCHANGED <<jobs, results>>

\* Faulty variant: the handler queues the task although create_job raised.
AfterCreateJobRaises_Queued == "queued"

\* Lines 202-207: create_job raised, the handler answers HTTP 500 and no
\* task is added.
AfterCreateJobRaises == "rejected"

\* POST /crawl: the key check answers 401 before the handler runs; else
\* create_job commits the pending row under a fresh id, the background task
\* is added and the handler answers; or create_job raises, in its commit
\* (nothing is stored) or in the refresh after the commit (the row is
\* stored), and the handler answers HTTP 500.
submit_crawl_job(j) ==
    /\ j \notin DOMAIN jobs
    /\ task[j].pc = "idle"
    /\ \E x_api_key \in ApiKeys, url \in Urls, keyword \in Keywords :
        \/ /\ ~verify_api_key(x_api_key)
           /\ task' = [task EXCEPT ![j] = [@ EXCEPT !.pc = "denied"]]
           /\ hist' = [hist EXCEPT ![j].key = x_api_key, ![j].answer = Unauthorized]
           /\ UNCHANGED jobs
        \/ /\ verify_api_key(x_api_key)
           /\ jobs' = create_job(jobs, j, url, keyword)
           /\ task' = [task EXCEPT ![j] =
                           [@ EXCEPT !.pc = "queued", !.url = url, !.keyword = keyword]]
           /\ hist' = [hist EXCEPT ![j].key = x_api_key,
                                   ![j].answer = CrawlResponse(j), ![j].tasks = @ + 1]
        \/ /\ verify_api_key(x_api_key)
           /\ task' = [task EXCEPT ![j] = [@ EXCEPT !.pc = AfterCreateJobRaises]]
           /\ hist' = [hist EXCEPT ![j].key = x_api_key, ![j].answer = CreateFailed]
           /\ UNCHANGED jobs
        \/ /\ verify_api_key(x_api_key)
           /\ jobs' = create_job(jobs, j, url, keyword)
           /\ task' = [task EXCEPT ![j] = [@ EXCEPT !.pc = AfterCreateJobRaises]]
           /\ hist' = [hist EXCEPT ![j].key = x_api_key, ![j].answer = CreateFailed]
    /\ UNCHANGED results
    /\ UNCHANGED <<call, req, proc>>

\* Line 322: await update_job_status(db, job_id, "in_progress")
MarkInProgress(j) ==
    /\ task[j].pc = "queued"
    /\ \/ /\ jobs' = update_job_status(jobs, j, "in_progress", NULL, NULL)
          /\ task' = [task EXCEPT ![j] = [@ EXCEPT !.pc = "start", !.attempt = 0]]
          /\ hist' = [hist EXCEPT ![j] = AfterWrite(@, "in_progress")]
          /\ UNCHANGED results
       \/ StoreRaises(j)
    /\ UNCHANGED <<call, req, proc>>

\* Lines 383-423: one POST of start_firecrawl_job and what follows its answer.
StartRequest(j) ==
    /\ task[j].pc = "start"
    /\ \E r \in StartResponses :
        LET o == StartOutcome(task[j].attempt, r)
        IN  /\ task' = [task EXCEPT ![j] =
                            IF o.returns THEN AfterStart(@, o.job_id)
                            ELSE [@ EXCEPT !.pc = "start_sleep"]]
            /\ hist' = [hist EXCEPT
                            ![j].startCalls = @ + 1,
                            ![j].startReturned = o.returns,
                            ![j].startNone = o.returns /\ o.job_id = NULL,
                            ![j].startId = o.job_id,
                            ![j].startLast = r.kind]
    /\ UNCHANGED <<jobs, results>>
    /\ UNCHANGED <<call, req, proc>>

\* Lines 405, 414, 421: await asyncio.sleep(2), then the next attempt.
StartSleep(j) ==
    /\ task[j].pc = "start_sleep"
    /\ task' = [task EXCEPT ![j] = [@ EXCEPT !.pc = "start", !.attempt = @ + 1]]
    /\ hist' = [hist EXCEPT ![j].waited = @ + start_wait_time]
    /\ UNCHANGED <<jobs, results>>
    /\ UNCHANGED <<call, req, proc>>

\* Line 337: await update_job_status(db, job_id, "in_progress",
\* firecrawl_job_id=...); then poll_firecrawl_status reads start_time.
StoreRemoteId(j) ==
    /\ task[j].pc = "store_id"
    /\ \/ /\ jobs' = update_job_status(jobs, j, "in_progress", NULL,
                                       task[j].firecrawl_job_id)
          /\ task' = [task EXCEPT ![j] =
                          [@ EXCEPT !.pc = "poll", !.elapsed = 0, !.retry_count = 0]]
          /\ hist' = [hist EXCEPT ![j] = AfterWrite(@, "in_progress")]
          /\ UNCHANGED results
       \/ StoreRaises(j)
    /\ UNCHANGED <<call, req, proc>>

\* Lines 451-503: one iteration of the poll loop up to its return or its sleep.
\* The request takes d time units.
PollIteration(j) ==
    /\ task[j].pc = "poll"
    /\ LET t == task[j]
           late == t.elapsed > crawl_timeout_seconds
       IN  IF TimedOut(t.elapsed)
           THEN /\ task' = [task EXCEPT ![j] = AfterPoll(t, PyNone, TimeoutMsg)]
                /\ hist' = [hist EXCEPT ![j].lateStart = @ \/ late,
                                        ![j].returned = TRUE,
                                        ![j].final = TimeoutExit,
                                        ![j].pollError = TimeoutMsg]
           ELSE \E r \in StatusResponses, d \in 0..MaxReqDuration :
                LET o == PollOutcome(t.retry_count, r)
                    failed == r.kind \in {"non200", "connect_error", "other_error"}
                IN  /\ task' = [task EXCEPT ![j] =
                                    IF o.returns
                                    THEN AfterPoll(t, o.data, o.error)
                                    ELSE [t EXCEPT !.pc = "poll_sleep",
                                                   !.elapsed = Advance(@, d),
                                                   !.retry_count = o.retry_count]]
                    /\ hist' = [hist EXCEPT
                                    ![j].polled = TRUE,
                                    ![j].lateStart = @ \/ late,
                                    ![j].consec = IF failed THEN @ + 1 ELSE 0,
                                    ![j].undecoded =
                                        IF r.kind # "bad_body" THEN 0
                                        ELSE IF @ < max_consecutive_errors
                                             THEN @ + 1 ELSE @,
                                    ![j].overrun =
                                        @ \/ t.elapsed + d > crawl_timeout_seconds,
                                    ![j].returned = o.returns,
                                    ![j].final = IF o.returns THEN r ELSE NoResponse,
                                    ![j].pollError = o.error]
    /\ UNCHANGED <<jobs, results>>
    /\ UNCHANGED <<call, req, proc>>

\* Line 506: await asyncio.sleep(settings.polling_interval_seconds)
PollSleep(j) ==
    /\ task[j].pc = "poll_sleep"
    /\ task' = [task EXCEPT ![j] =
                    [@ EXCEPT !.pc = "poll",
                               !.elapsed = Advance(@, polling_interval_seconds)]]
    /\ hist' = [hist EXCEPT ![j].overrun =
                    @ \/ task[j].elapsed + polling_interval_seconds
                            > crawl_timeout_seconds]
    /\ UNCHANGED <<jobs, results>>
    /\ UNCHANGED <<call, req, proc>>

\* Lines 532-555: one page of extract_and_store_results.  A page whose fields
\* cannot be read, or whose create_result raises, is logged and skipped.
ExtractPage(j) ==
    /\ task[j].pc = "extract"
    /\ LET t == task[j]
           page == t.crawled_data.val[t.idx]
           found == ~PageRaises(page) /\ Matches(t.keyword, page)
       IN  /\ task' = [task EXCEPT ![j] = AfterPage(t)]
           /\ \/ /\ ~found
                 /\ UNCHANGED <<results, hist>>
              \/ /\ found
                 /\ results' = create_result(results, j, page_url(page),
                                             page_title(page), markdown_content(page))
                 /\ UNCHANGED hist
              \/ /\ found
                 /\ hist' = [hist EXCEPT ![j].storeRaised = TRUE]
                 /\ UNCHANGED results
    /\ UNCHANGED jobs
    /\ UNCHANGED <<call, req, proc>>

\* Line 356: await update_job_status(db, job_id, "completed")
WriteCompleted(j) ==
    /\ task[j].pc = "write_completed"
    /\ \/ /\ jobs' = update_job_status(jobs, j, "completed", NULL, NULL)
          /\ task' = [task EXCEPT ![j] = [@ EXCEPT !.pc = AfterCompletedWrite]]
          /\ hist' = [hist EXCEPT ![j] = AfterWrite(@, "completed")]
          /\ UNCHANGED results
       \/ StoreRaises(j)
    /\ UNCHANGED <<call, req, proc>>

\* Lines 330 and 346: await update_job_status(db, job_id, "failed", error=error_msg)
WriteFailed(j) ==
    /\ task[j].pc = "write_failed"
    /\ \/ /\ jobs' = update_job_status(jobs, j, "failed", task[j].error_msg, NULL)
          /\ task' = [task EXCEPT ![j] = [@ EXCEPT !.pc = AfterFailedWrite]]
          /\ hist' = [hist EXCEPT ![j] = AfterWrite(@, "failed")]
          /\ UNCHANGED results
       \/ StoreRaises(j)
    /\ UNCHANGED <<call, req, proc>>

\* Lines 359-365: the except clause's own write.  If it raises too, nothing
\* catches the exception and it leaves process_crawl_job.
HandleException(j) ==
    /\ task[j].pc = "handler"
    /\ \/ /\ jobs' = update_job_status(jobs, j, "failed", task[j].error_msg, NULL)
          /\ task' = [task EXCEPT ![j] = [@ EXCEPT !.pc = "done"]]
          /\ hist' = [hist EXCEPT ![j] = AfterWrite(@, "failed")]
          /\ UNCHANGED results
       \/ /\ task' = [task EXCEPT ![j] = [@ EXCEPT !.pc = "escaped"]]
          /\ hist' = [hist EXCEPT ![j].storeRaised = TRUE]
          /\ UNCHANGED <<jobs, results>>
    /\ UNCHANGED <<call, req, proc>>

Step(j) ==
    \/ MarkInProgress(j)
    \/ StartRequest(j)
    \/ StartSleep(j)
    \/ StoreRemoteId(j)
    \/ PollIteration(j)
    \/ PollSleep(j)
    \/ ExtractPage(j)
    \/ WriteCompleted(j)
    \/ WriteFailed(j)
    \/ HandleException(j)

Next ==
    \E j \in JobIds :
        \/ submit_crawl_job(j)
        \/ Step(j)

Spec == Init /\ [][Next]_vars

\* The event loop runs a queued task on to its end, and the clock advances.
LiveSpec == Spec /\ \A j \in JobIds : WF_vars(Step(j))

----------------------------------------------------------------------------
(* Two jobs at once.  Each POST /crawl adds its own task to the event loop *)
(* and the tasks' awaits interleave freely; they share the Job Store only. *)

ConcJobIds == {"j1", "j2"}

ConcInit ==
    /\ jobs = [k \in {} |-> CrawlJob("", <<>>)]
    /\ results = <<>>
    /\ task = [j \in ConcJobIds |-> IdleTask]
    /\ hist = [j \in ConcJobIds |-> NoHistory]
    /\ call = NoCall
    /\ req = NoRequest
    /\ proc = FirstProcess

\* The provider the two jobs run against is quick and terse: only its first
\* answer to a job's status queries may be "still running" or a failed
\* check, it answers at once, and a completed answer carries at most one
\* page.  The store may still raise on any call.
ConcEnv(j) ==
    /\ task'[j].pc = "poll_sleep" => task[j].elapsed = 0 /\ task'[j].elapsed = 0
    /\ hist'[j].final.data.tag = "list" => Len(hist'[j].final.data.val) <= 1

\* One iteration of job j's poll loop against that provider.
ConcPollIteration(j) == PollIteration(j) /\ ConcEnv(j)

ConcNext ==
    \E j \in ConcJobIds :
        \/ submit_crawl_job(j)
        \/ MarkInProgress(j)
        \/ StartRequest(j)
        \/ StartSleep(j)
        \/ StoreRemoteId(j)
        \/ ConcPollIteration(j)
        \/ PollSleep(j)
        \/ ExtractPage(j)
        \/ WriteCompleted(j)
        \/ WriteFailed(j)
        \/ HandleException(j)

ConcSpec == ConcInit /\ [][ConcNext]_vars

----------------------------------------------------------------------------
(* update_job_status on its own: one call with any arguments on any table  *)
(* of one or two rows.                                                     *)

StoreJobIds == {"j1", "j2"}

\* The rows a table may hold before the call.
StoreRows ==
    [input_url : Urls, keyword : Keywords, status : Statuses,
     firecrawl_job_id : {NULL, "r0"}, created_at : {Timestamp},
     completed_at : {NULL, "<earlier>"}, error : {NULL, "old error"}]

StoreTables == [{"j1"} -> StoreRows] \cup [StoreJobIds -> StoreRows]

\* The arguments of the call; error and firecrawl_job_id default to None.
CallErrors == {NULL, "", "new error"}
CallIds == {NULL, "", "r1"}

StoreInit ==
    /\ jobs \in StoreTables
    /\ results = <<>>
    /\ task = [j \in JobIds |-> IdleTask]
    /\ hist = [j \in JobIds |-> NoHistory]
    /\ call = NoCall
    /\ req = NoRequest
    /\ proc = FirstProcess

CallUpdateJobStatus ==
    /\ call = NoCall
    /\ \E job_id \in StoreJobIds, status \in Statuses,
          error \in CallErrors, firecrawl_job_id \in CallIds :
        /\ jobs' = update_job_status(jobs, job_id, status, error, firecrawl_job_id)
        /\ call' = [job_id |-> job_id, status |-> status, error |-> error,
                    firecrawl_job_id |-> firecrawl_job_id]
    /\ UNCHANGED <<results, task, hist, req, proc>>

StoreNext == CallUpdateJobStatus

StoreSpec == StoreInit /\ [][StoreNext]_vars

----------------------------------------------------------------------------
(* GET /crawl/{job_id} while the job's task runs.  The handler awaits      *)
(* get_job_by_id and, for a completed job, get_results_by_job_id; the task *)
(* may take steps before, between and after the two reads.                 *)

\* Faulty variant: the results are read and returned for every status.
IncludesResults_Always(status) == TRUE

\* Line 268: if job.status == "completed"
IncludesResults(status) == status = "completed"

\* Lines 221-268 and 283-296: the key check, then get_job_by_id and the
\* code up to the next await or the answer.
get_crawl_status(j) ==
    /\ req.pc = "idle"
    /\ \E x_api_key \in ApiKeys :
        LET r == [req EXCEPT !.job_id = j, !.key = x_api_key]
            got == get_job_by_id(jobs, j)
            answer(u, response) == [u EXCEPT !.pc = "answered", !.response = response]
            read == [r EXCEPT !.reads = @ + 1]
        IN  \/ /\ ~verify_api_key(x_api_key)
               /\ req' = answer(r, ErrorAnswer(401))
            \/ /\ verify_api_key(x_api_key)
               /\ req' = answer(read, ErrorAnswer(500))
            \/ /\ verify_api_key(x_api_key)
               /\ ~got.found
               /\ req' = answer(read, ErrorAnswer(404))
            \/ /\ verify_api_key(x_api_key)
               /\ got.found
               /\ ~IncludesResults(got.row.status)
               /\ req' = answer([read EXCEPT !.job = got.row],
                                CrawlStatusResponse(got.row, NoResults))
            \/ /\ verify_api_key(x_api_key)
               /\ got.found
               /\ IncludesResults(got.row.status)
               /\ req' = [read EXCEPT !.pc = "read_results", !.job = got.row]
    /\ UNCHANGED <<jobs, results, task, hist, call, proc>>

\* Lines 271-287: get_results_by_job_id and the answer, or the read raises
\* and the handler answers HTTP 500.
get_crawl_status_results ==
    /\ req.pc = "read_results"
    /\ \/ req' = [req EXCEPT
                     !.pc = "answered",
                     !.reads = @ + 1,
                     !.response =
                         CrawlStatusResponse(
                             req.job,
                             ResultItems(get_results_by_job_id(results, req.job_id)))]
       \/ req' = [req EXCEPT !.pc = "answered", !.reads = @ + 1,
                             !.response = ErrorAnswer(500)]
    /\ UNCHANGED <<jobs, results, task, hist, call, proc>>

ReadNext ==
    \/ \E j \in JobIds :
        \/ submit_crawl_job(j)
        \/ MarkInProgress(j)
        \/ StartRequest(j)
        \/ StartSleep(j)
        \/ StoreRemoteId(j)
        \/ PollIteration(j)
        \/ PollSleep(j)
        \/ ExtractPage(j)
        \/ WriteCompleted(j)
        \/ WriteFailed(j)
        \/ HandleException(j)
        \/ get_crawl_status(j)
    \/ get_crawl_status_results

ReadSpec == Init /\ [][ReadNext]_vars

----------------------------------------------------------------------------
(* The process exits and is started again.  The tasks that                 *)
(* background_tasks.add_task queued live in the memory of the process; the *)
(* two tables live in the database.                                        *)

\* How often the process is started again.
MaxRestarts == 1

\* Where a task is between add_task and its return.
RunningPcs ==
    {"queued", "start", "start_sleep", "store_id", "poll", "poll_sleep",
     "extract", "write_completed", "write_failed", "handler"}

\* A task and its local variables when its process is gone.
TaskAfterExit(t) ==
    IF t.pc \in RunningPcs THEN [IdleTask EXCEPT !.pc = "lost"] ELSE t

\* Faulty variant: the startup looks for jobs left pending or in_progress and
\* queues a task for each.
TaskAtStartup_Resumed(tbl, j, t) ==
    IF t.pc = "lost" /\ j \in DOMAIN tbl /\ tbl[j].status \in {"pending", "in_progress"}
    THEN [t EXCEPT !.pc = "queued", !.url = tbl[j].input_url,
                   !.keyword = tbl[j].keyword]
    ELSE t

\* Lines 34-45: the startup logs and runs init_db; it reads no job and adds
\* no task, so the new process has no task for a job of the old one.
TaskAtStartup(tbl, j, t) == t

\* init_db: CREATE TABLE and CREATE INDEX, each IF NOT EXISTS, on a database
\* that has the tables: the rows stay.
init_db(tbl) == tbl

\* The process exits, at any point of any task.
ProcessExit ==
    /\ proc.up
    /\ proc' = [proc EXCEPT !.up = FALSE]
    /\ task' = [j \in DOMAIN task |-> TaskAfterExit(task[j])]
    /\ UNCHANGED <<jobs, results, hist, call, req>>

\* Lines 28-45: the process is started again; init_db succeeds and the
\* application serves, or init_db raises, lifespan raises it again and the
\* process does not come up.
lifespan ==
    /\ ~proc.up
    /\ proc.restarts < MaxRestarts
    /\ \/ /\ proc' = [up |-> TRUE, restarts |-> proc.restarts + 1]
          /\ jobs' = init_db(jobs)
          /\ results' = init_db(results)
          /\ task' = [j \in DOMAIN task |-> TaskAtStartup(jobs, j, task[j])]
       \/ /\ proc' = [up |-> FALSE, restarts |-> proc.restarts + 1]
          /\ UNCHANGED <<jobs, results, task>>
    /\ UNCHANGED <<hist, call, req>>

\* The clients of the model: one job is submitted to the first process and
\* the other to a process started after it.
SubmittedTo(j) == IF j = "j1" THEN 0 ELSE 1

\* POST /crawl is served by a running process only.
ServedSubmit(j) ==
    /\ proc.up
    /\ proc.restarts >= SubmittedTo(j)
    /\ SubmittedTo(j) = 0 => proc.restarts = 0
    /\ submit_crawl_job(j)

CrashNext ==
    \/ \E j \in ConcJobIds :
        \/ ServedSubmit(j)
        \/ MarkInProgress(j)
        \/ StartRequest(j)
        \/ StartSleep(j)
        \/ StoreRemoteId(j)
        \/ ConcPollIteration(j)
        \/ PollSleep(j)
        \/ ExtractPage(j)
        \/ WriteCompleted(j)
        \/ WriteFailed(j)
        \/ HandleException(j)
    \/ ProcessExit
    \/ lifespan

CrashSpec == ConcInit /\ [][CrashNext]_vars

----------------------------------------------------------------------------
(* Properties.                                                             *)

Terminal == {"completed", "failed"}
Submitted(j) == j \in DOMAIN jobs
\* The task has returned to its caller.
Finished(j) == task[j].pc = "done"
\* Every Job Store call of the task so far was accepted.
StoreOk(j) == ~hist[j].storeRaised

Rank(status) ==
    CASE status = "pending" -> 0
      [] status = "in_progress" -> 1
      [] OTHER -> 2

\* C1: job status only moves forward along pending -> in_progress ->
\* {completed, failed}: no step takes a job's status back to an earlier value,
\* and a status that is completed or failed never changes again.
C1_StatusMonotonic ==
    [][\A j \in DOMAIN jobs :
          /\ j \in DOMAIN jobs'
          /\ Rank(jobs'[j].status) >= Rank(jobs[j].status)
          /\ jobs[j].status \in Terminal => jobs'[j].status = jobs[j].status]_vars

\* A job that went pending -> in_progress -> failed by the except clause's
\* write, after a terminal write of the task had raised.
C1_Witness ==
    \E j \in DOMAIN jobs :
        /\ Finished(j)
        /\ hist[j].raised
        /\ hist[j].returned
        /\ jobs[j].status = "failed"

C3_NeverEscapes ==
    \A j \in JobIds :
        /\ task[j].pc # "escaped"
        /\ Finished(j) /\ hist[j].raised =>
              jobs[j].status = "failed" /\ jobs[j].error # NULL

\* C4: if the start retrier got no remote job id, the start endpoint has been
\* called exactly max_retries times and the job ends failed with the
\* start-failure error (the Job Store accepting the writes).
C4_StartExhaustion ==
    \A j \in JobIds :
        Finished(j) /\ hist[j].startNone /\ StoreOk(j) =>
            /\ hist[j].startCalls = max_retries
            /\ jobs[j].status = "failed"
            /\ jobs[j].error = StartFailedMsg

\* C5: once the start retrier has returned no handle, no status query is ever
\* sent for the job, its remote_job_id stays null, it never becomes
\* completed, and when the task returns the job is failed with an error.
C5_NoHandleNoPoll ==
    \A j \in JobIds :
        hist[j].startNone =>
            /\ ~hist[j].polled
            /\ task[j].pc \notin {"store_id", "poll", "poll_sleep", "extract",
                                  "write_completed"}
            /\ jobs[j].firecrawl_job_id = NULL
            /\ jobs[j].status # "completed"
            /\ Finished(j) => jobs[j].status = "failed" /\ jobs[j].error # NULL

\* Three start attempts failed and the job ended failed, never polled.
C5_Witness ==
    \E j \in DOMAIN jobs :
        /\ Finished(j)
        /\ hist[j].startNone
        /\ hist[j].startCalls = max_retries
        /\ jobs[j].status = "failed"
        /\ jobs[j].firecrawl_job_id = NULL

\* C6 as stated: if elapsed passed the timeout while the poll was running,
\* before the provider had reported completed or failed, the job ends failed
\* with the timeout error (the Job Store accepting the writes).
C6_TimeoutWheneverOverrun ==
    \A j \in JobIds :
        Finished(j) /\ hist[j].overrun /\ StoreOk(j) =>
            jobs[j].status = "failed" /\ jobs[j].error = TimeoutMsg

\* C6 amended: if an iteration of the poll loop begins with elapsed above the
\* timeout, the poll sends no request in it and returns the timeout error,
\* and the job ends failed with that error (the Job Store accepting the
\* writes).  An answer to a request sent before the deadline counts even
\* when it arrives after it.
C6_TimeoutAtLoopTop ==
    \A j \in JobIds :
        hist[j].lateStart =>
            /\ hist[j].returned
            /\ hist[j].final = TimeoutExit
            /\ hist[j].pollError = TimeoutMsg
            /\ jobs[j].status # "completed"
            /\ Finished(j) /\ StoreOk(j) =>
                  jobs[j].status = "failed" /\ jobs[j].error = TimeoutMsg

\* The poll was answered "still running" until an iteration began past the
\* timeout, and the job ended failed with the timeout error.
C6_Witness ==
    \E j \in DOMAIN jobs :
        /\ Finished(j)
        /\ StoreOk(j)
        /\ hist[j].polled
        /\ hist[j].lateStart
        /\ jobs[j].error = TimeoutMsg

\* The reasons with which the poll loop gives up after repeated failed checks.
GaveUpMsgs ==
    {StatusCheckFailedMsg, UnreachableMsg, PollingErrorMsg(ReadTimeout),
     PollingErrorMsg(DecodeError)}
GaveUp(j) == hist[j].returned /\ hist[j].pollError \in GaveUpMsgs

\* C7: the poll loop gives up with a repeated-failure error exactly when 5
\* status checks in a row have failed (connection error or non-200), and the
\* job then ends failed; fewer than 5 consecutive failures never end the loop.
C7_CeilingExact ==
    \A j \in JobIds :
        /\ GaveUp(j) <=> hist[j].consec >= max_consecutive_errors
        /\ GaveUp(j) /\ Finished(j) /\ StoreOk(j) => jobs[j].status = "failed"

\* The text a "failed" answer carries in its error member, if it carries one.
HasErrorText(r) == r.error \in ProviderErrors
RemoteFailed(j) == hist[j].final.kind = "ok" /\ hist[j].final.status = "failed"

\* C8: when a status query answers with remote status failed, no Result is
\* created for the job and it never becomes completed; when the task returns
\* (the Job Store accepting the writes) the job is failed and its error is
\* "Firecrawl error: " followed by the provider's error text, or by a generic
\* text ("Firecrawl job failed", or "None" for an explicit null) when the
\* answer carries no text.
C8_RemoteFailure ==
    \A j \in JobIds :
        RemoteFailed(j) =>
            /\ get_results_by_job_id(results, j) = <<>>
            /\ jobs[j].status # "completed"
            /\ Finished(j) /\ StoreOk(j) =>
                  /\ jobs[j].status = "failed"
                  /\ \E text \in IF HasErrorText(hist[j].final)
                                 THEN {hist[j].final.error}
                                 ELSE {"Firecrawl job failed", "None"} :
                        jobs[j].error = "Firecrawl error: " \o text

\* The provider answered failed with "site unreachable" and the job ended
\* failed with that text in its error.
C8_Witness ==
    \E j \in DOMAIN jobs :
        /\ Finished(j)
        /\ RemoteFailed(j)
        /\ hist[j].final.error = "site unreachable"
        /\ jobs[j].status = "failed"
        /\ jobs[j].error = "Firecrawl error: site unreachable"

\* The keyword occurs in the text, letter case ignored.
ContainsKeyword(keyword, text) ==
    \E i \in 0..(Len(text) - Len(keyword)) :
        \A k \in 1..Len(keyword) : LowerChar(text[i + k]) = LowerChar(keyword[k])

\* A page whose markdown and metadata are not null: its fields can be read.
Readable(page) == page.markdown.tag # "none" /\ page.metadata.tag # "none"

\* One row per page that contains the keyword, in page order, carrying the
\* page's sourceURL, title and whole text; with readableOnly, only the pages
\* whose fields can be read count.
RECURSIVE ExpectedRows(_, _, _)
ExpectedRows(keyword, pages, readableOnly) ==
    IF pages = <<>> THEN <<>>
    ELSE LET p == Head(pages)
             hit == /\ ContainsKeyword(keyword, p.markdown.val)
                    /\ readableOnly => Readable(p)
         IN  (IF hit
              THEN <<[page_url |-> p.metadata.sourceURL,
                      page_title |-> p.metadata.title,
                      content_snippet |-> p.markdown.val]>>
              ELSE <<>>)
                 \o ExpectedRows(keyword, Tail(pages), readableOnly)

\* The job's Results, without their ids.
StoredRows(j) ==
    LET rs == get_results_by_job_id(results, j)
    IN  [i \in 1..Len(rs) |->
            [page_url |-> rs[i].page_url, page_title |-> rs[i].page_title,
             content_snippet |-> rs[i].content_snippet]]

RemoteCompleted(j) ==
    hist[j].final.kind = "ok" /\ hist[j].final.status = "completed"

\* C9: if a status query answers completed with a sequence of pages of any
\* length, the job ends completed with null error and its Results are those
\* of the pages that contain the keyword (the Job Store accepting the writes).
C9_CompletedAnyLength ==
    \A j \in JobIds :
        /\ Finished(j)
        /\ StoreOk(j)
        /\ RemoteCompleted(j)
        /\ hist[j].final.data.tag = "list"
        => /\ jobs[j].status = "completed"
           /\ jobs[j].error = NULL
           /\ StoredRows(j) = ExpectedRows(task[j].keyword, hist[j].final.data.val, FALSE)

\* The extractor has gone through all the pages of a non-empty page list.
Extracted(j) ==
    /\ RemoteCompleted(j)
    /\ task[j].crawled_data.tag = "list"
    /\ task[j].pc \in {"write_completed", "handler", "done", "escaped"}

CurrentPage(j) == task[j].crawled_data.val[task[j].idx]
LastPage(j) == task[j].idx = Len(task[j].crawled_data.val)
\* The step is one of job j's extractor.
ExtractStep(j) == task[j].pc = "extract" /\ task'[j] # task[j]

\* C11 as stated: a page that lacks the markdown field or the metadata block
\* yields no Result, and the extractor goes on to the next page after every
\* page.
C11_LackingPageNoResult ==
    [][\A j \in JobIds :
          ExtractStep(j) =>
              /\ task'[j].pc = IF LastPage(j) THEN "write_completed" ELSE "extract"
              /\ CurrentPage(j).markdown.tag = "missing"
                    \/ CurrentPage(j).metadata.tag = "missing" => results' = results]_vars

\* C11 amended: a page without markdown has empty text and yields no Result;
\* a page without metadata is searched like any other and, when its text
\* contains the keyword, yields a Result with empty url and title (the store
\* accepting it); a page whose processing raises yields none; and after
\* every page, these included, the extractor goes on to the next page, or to
\* the completed write after the last, without raising into the task.
C11_LackingPageEvaluated ==
    [][\A j \in JobIds :
          ExtractStep(j) =>
              LET t == task[j]
                  page == CurrentPage(j)
              IN  /\ task'[j].pc = IF LastPage(j) THEN "write_completed" ELSE "extract"
                  /\ task'[j].idx = IF LastPage(j) THEN t.idx ELSE t.idx + 1
                  /\ task'[j].crawled_data = t.crawled_data
                  /\ hist'[j].raised = hist[j].raised
                  /\ page.markdown.tag = "missing" => results' = results
                  /\ ~Readable(page) => results' = results
                  /\ /\ page.metadata.tag = "missing"
                     /\ page.markdown.tag = "str"
                     /\ ContainsKeyword(t.keyword, page.markdown.val)
                     /\ ~hist'[j].storeRaised
                     => results' = Append(results,
                                         [id |-> Len(results) + 1, job_id |-> j,
                                          page_url |-> "", page_title |-> "",
                                          content_snippet |-> page.markdown.val])]_vars

\* A page with null metadata was skipped and the page after it, which has no
\* metadata block, was stored with empty url and title.
C11_Witness ==
    \E j \in DOMAIN jobs :
        /\ Finished(j)
        /\ StoreOk(j)
        /\ jobs[j].status = "completed"
        /\ Len(task[j].crawled_data.val) = 2
        /\ task[j].crawled_data.val[1].metadata.tag = "none"
        /\ task[j].crawled_data.val[2].metadata.tag = "missing"
        /\ StoredRows(j) = <<[page_url |-> "", page_title |-> "",
                              content_snippet |-> <<"a", "B">>]>>

\* C12: in every reachable state of every job, completed_at is non-null if
\* and only if status is completed or failed.
C12_CompletedAtIffTerminal ==
    \A j \in DOMAIN jobs :
        jobs[j].completed_at # NULL <=> jobs[j].status \in Terminal

\* A job whose completed write has stamped completed_at.
C12_Witness ==
    \E j \in DOMAIN jobs :
        /\ jobs[j].status = "completed"
        /\ jobs[j].completed_at = Timestamp

\* C13: in every reachable state of every job, error is non-null if and only
\* if status is failed, and a stored error is never the empty text.
C13_ErrorIffFailed ==
    \A j \in DOMAIN jobs :
        /\ jobs[j].error # NULL <=> jobs[j].status = "failed"
        /\ jobs[j].error # ""

\* The poll returned neither pages nor a reason (completed with an empty
\* page list) and the job was failed with the fallback text.
C13_Witness ==
    \E j \in DOMAIN jobs :
        /\ RemoteCompleted(j)
        /\ hist[j].pollError = NULL
        /\ jobs[j].status = "failed"
        /\ jobs[j].error = NoResultsMsg

\* C14: firecrawl_job_id is null while the job is pending and during the
\* whole start phase; once non-null it is the handle the successful start
\* call returned; and no step changes or clears it afterwards.
C14_RemoteIdSetOnce ==
    /\ [](\A j \in DOMAIN jobs :
            /\ jobs[j].status = "pending" => jobs[j].firecrawl_job_id = NULL
            /\ task[j].pc \in {"queued", "start", "start_sleep", "store_id"} =>
                  jobs[j].firecrawl_job_id = NULL
            /\ jobs[j].firecrawl_job_id # NULL =>
                  /\ hist[j].startReturned
                  /\ ~hist[j].startNone
                  /\ jobs[j].firecrawl_job_id = hist[j].startId)
    /\ [][\A j \in DOMAIN jobs :
            jobs[j].firecrawl_job_id # NULL =>
                jobs'[j].firecrawl_job_id = jobs[j].firecrawl_job_id]_vars

\* The handle stored after the start phase is still there after the job's
\* terminal write.
C14_Witness ==
    \E j \in DOMAIN jobs :
        /\ Finished(j)
        /\ jobs[j].status \in Terminal
        /\ hist[j].startCalls = 2
        /\ jobs[j].firecrawl_job_id = "r1"

\* C15: within one job the steps come in the order in_progress write, start
\* calls, firecrawl_job_id write, status queries, Result creations, completed
\* write, each write committed before the next step begins: no start call
\* before the in_progress write, no status query before the
\* firecrawl_job_id write, no Result before the poll returned pages, and no
\* completed status before the extraction has gone through all pages.
C15_StepOrder ==
    \A j \in DOMAIN jobs :
        /\ task[j].pc \in {"start", "start_sleep"} \/ hist[j].startCalls > 0 =>
              jobs[j].status # "pending"
        /\ task[j].pc \in {"start", "start_sleep", "store_id"} =>
              ~hist[j].polled /\ get_results_by_job_id(results, j) = <<>>
        /\ task[j].pc \in {"poll", "poll_sleep"} \/ hist[j].polled =>
              /\ hist[j].startReturned
              /\ jobs[j].firecrawl_job_id # NULL
        /\ task[j].pc \in {"poll", "poll_sleep"} =>
              get_results_by_job_id(results, j) = <<>>
        /\ task[j].pc = "extract" \/ get_results_by_job_id(results, j) # <<>> =>
              /\ hist[j].returned
              /\ RemoteCompleted(j)
              /\ DataTruthy(hist[j].final.data)
        /\ jobs[j].status = "completed" => Extracted(j) /\ Finished(j)

\* A job that went through every step: two start calls, the stored handle,
\* status queries, a Result, completed.
C15_Witness ==
    \E j \in DOMAIN jobs :
        /\ jobs[j].status = "completed"
        /\ hist[j].startCalls = 2
        /\ hist[j].polled
        /\ jobs[j].firecrawl_job_id # NULL
        /\ Len(get_results_by_job_id(results, j)) = 1

\* C16: Results of a job are created only while its extractor runs, after
\* the poll returned pages and before the job's terminal write; no step
\* changes or removes a stored Result, and the Results of a completed or
\* failed job stay as they are.
C16_ResultsOnlyGrow ==
    [][/\ Len(results') >= Len(results)
       /\ SubSeq(results', 1, Len(results)) = results
       /\ \A j \in DOMAIN jobs :
            get_results_by_job_id(results', j) # get_results_by_job_id(results, j) =>
                /\ task[j].pc = "extract"
                /\ hist[j].returned
                /\ RemoteCompleted(j)
                /\ jobs[j].status \notin Terminal
                /\ jobs'[j].status \notin Terminal]_vars

\* The first of two pages was stored, the second was not, and the job was
\* then written completed.
C16_Witness ==
    \E j \in DOMAIN jobs :
        /\ Finished(j)
        /\ jobs[j].status = "completed"
        /\ Len(task[j].crawled_data.val) = 2
        /\ ~Matches(task[j].keyword, task[j].crawled_data.val[2])
        /\ Len(get_results_by_job_id(results, j)) = 1

\* POST /crawl has just answered "started" for j.
Accepted(j) ==
    hist'[j].answer # hist[j].answer /\ hist'[j].answer.status = "started"

\* C17: each accepted submission creates exactly one Job, under an id no
\* other job has, with status pending and null error, completed_at and
\* firecrawl_job_id, and leaves the other jobs as they are.
C17_OneFreshPendingJob ==
    [][\A j \in DOMAIN task :
          Accepted(j) =>
              /\ hist'[j].answer.job_id = j
              /\ j \notin DOMAIN jobs
              /\ DOMAIN jobs' = DOMAIN jobs \cup {j}
              /\ \A k \in DOMAIN jobs : jobs'[k] = jobs[k]
              /\ jobs'[j].status = "pending"
              /\ jobs'[j].error = NULL
              /\ jobs'[j].completed_at = NULL
              /\ jobs'[j].firecrawl_job_id = NULL
              /\ jobs'[j].input_url = task'[j].url
              /\ jobs'[j].keyword = task'[j].keyword]_vars

\* A second submission was accepted while the first job had already ended.
C17_Witness ==
    \E j, k \in DOMAIN jobs :
        /\ j # k
        /\ hist[j].answer = CrawlResponse(j)
        /\ hist[k].answer = CrawlResponse(k)
        /\ jobs[j].status = "failed"
        /\ jobs[k].status = "pending"
        /\ task[k].pc = "queued"

\* C18: POST /crawl answers (job id, "started") in the step that commits the
\* pending row, with the task added but not yet run; a job's task runs only
\* after that, it is added once and never again, and a submission whose
\* create_job raised is answered HTTP 500 and never gets a task.
C18_AnswerThenTaskOnce ==
    /\ [](\A j \in DOMAIN task :
            /\ hist[j].tasks <= 1
            /\ hist[j].answer = CrawlResponse(j) <=> hist[j].tasks = 1
            /\ hist[j].answer = CreateFailed <=> task[j].pc = "rejected"
            /\ hist[j].answer = NoAnswer <=> task[j].pc = "idle"
            /\ hist[j].tasks = 1 => Submitted(j))
    /\ [][\A j \in DOMAIN task :
            /\ Accepted(j) => jobs'[j].status = "pending" /\ task'[j].pc = "queued"
            /\ task'[j].pc = "queued" /\ task[j].pc # "queued" => Accepted(j)
            /\ task[j].pc = "rejected" => task'[j].pc = "rejected"
            /\ hist[j].answer # NoAnswer => hist'[j].answer = hist[j].answer]_vars

\* The submission has been answered "started" and the task has not run yet.
C18_Witness ==
    \E j \in DOMAIN jobs :
        /\ hist[j].answer = CrawlResponse(j)
        /\ hist[j].tasks = 1
        /\ task[j].pc = "queued"
        /\ jobs[j].status = "pending"
        /\ hist[j].startCalls = 0

\* A job's final status, error, firecrawl_job_id and Results.
Outcome(j) ==
    [status |-> jobs[j].status, error |-> jobs[j].error,
     firecrawl_job_id |-> jobs[j].firecrawl_job_id, rows |-> StoredRows(j)]

\* What a job that runs alone ends with, given the provider's answers to it
\* (the store accepting its writes).
AloneOutcome(j) ==
    LET h == hist[j]
        failed(error) ==
            [status |-> "failed", error |-> error,
             firecrawl_job_id |-> h.startId, rows |-> <<>>]
    IN  IF h.startNone THEN failed(StartFailedMsg)
        ELSE IF RemoteCompleted(j) /\ h.final.data.tag = "scalar"
        THEN failed(InternalErrorMsg(NotIterable))
        ELSE IF RemoteCompleted(j) /\ h.final.data.tag = "list"
                    /\ h.final.data.val # <<>>
        THEN [status |-> "completed", error |-> NULL,
              firecrawl_job_id |-> h.startId,
              rows |-> ExpectedRows(task[j].keyword, h.final.data.val, TRUE)]
        ELSE failed(IF h.pollError # NULL THEN h.pollError ELSE NoResultsMsg)

\* A job whose task has returned has the outcome of a run alone.
EndsAsAlone ==
    \A j \in DOMAIN jobs :
        Finished(j) /\ StoreOk(j) => Outcome(j) = AloneOutcome(j)

\* C19: with two jobs running in any interleaving, a step of one job's
\* submission or task changes only that job's row, task and history and adds
\* only Results that carry that job's id; and each job ends with the status,
\* error, firecrawl_job_id and Results it ends with when it runs alone
\* against the same provider answers.
C19_JobsIsolated ==
    /\ []EndsAsAlone
    /\ [][\E j \in DOMAIN task :
            /\ task'[j] # task[j]
            /\ \A k \in DOMAIN task \ {j} :
                  /\ task'[k] = task[k]
                  /\ hist'[k] = hist[k]
                  /\ k \in DOMAIN jobs => k \in DOMAIN jobs' /\ jobs'[k] = jobs[k]
                  /\ get_results_by_job_id(results', k)
                        = get_results_by_job_id(results, k)
            /\ results' # results =>
                  /\ Len(results') = Len(results) + 1
                  /\ SubSeq(results', 1, Len(results)) = results
                  /\ results'[Len(results')].job_id = j]_vars

\* Both jobs ended completed, and their Results lie interleaved in the table.
C19_Witness ==
    /\ DOMAIN jobs = ConcJobIds
    /\ \A j \in ConcJobIds : Finished(j) /\ jobs[j].status = "completed"
    /\ Len(results) = 2
    /\ results[1].job_id = "j2"
    /\ results[2].job_id = "j1"

\* C20: update_job_status(job_id, status, error, firecrawl_job_id) always
\* sets status; changes error only when an error is passed, and then to that
\* error; changes firecrawl_job_id only when a handle is passed, and then to
\* that handle; stamps completed_at when the new status is completed or
\* failed and leaves it alone otherwise; and leaves the row's id, input_url,
\* keyword and created_at, every other row and the Results unchanged.
C20_UpdateFrame ==
    [][call' # call =>
          LET c == call'
              k == c.job_id
          IN  /\ DOMAIN jobs' = DOMAIN jobs
              /\ results' = results
              /\ \A i \in DOMAIN jobs \ {k} : jobs'[i] = jobs[i]
              /\ k \in DOMAIN jobs =>
                    /\ jobs'[k].status = c.status
                    /\ jobs'[k].error # jobs[k].error => c.error # NULL
                    /\ jobs'[k].error \in {jobs[k].error, c.error}
                    /\ Truthy(c.error) => jobs'[k].error = c.error
                    /\ jobs'[k].firecrawl_job_id # jobs[k].firecrawl_job_id =>
                          c.firecrawl_job_id # NULL
                    /\ jobs'[k].firecrawl_job_id
                          \in {jobs[k].firecrawl_job_id, c.firecrawl_job_id}
                    /\ Truthy(c.firecrawl_job_id) =>
                          jobs'[k].firecrawl_job_id = c.firecrawl_job_id
                    /\ jobs'[k].completed_at =
                          IF c.status \in Terminal THEN Timestamp
                          ELSE jobs[k].completed_at
                    /\ jobs'[k].input_url = jobs[k].input_url
                    /\ jobs'[k].keyword = jobs[k].keyword
                    /\ jobs'[k].created_at = jobs[k].created_at]_vars

\* A call that passed neither error nor handle set the status of a row and
\* left its error, its handle and the other row as they were.
C20_Witness ==
    /\ call = [job_id |-> "j1", status |-> "in_progress", error |-> NULL,
               firecrawl_job_id |-> NULL]
    /\ DOMAIN jobs = StoreJobIds
    /\ jobs["j1"].status = "in_progress"
    /\ jobs["j1"].error = "old error"
    /\ jobs["j1"].firecrawl_job_id = "r0"
    /\ jobs["j2"].status = "failed"

----------------------------------------------------------------------------
(* Status requests, the API key, the retry and polling loops, terminal     *)
(* failures.                                                               *)

\* GET /crawl/{job_id} has answered with the job's fields.
Answered == req.pc = "answered" /\ req.response.code = 200

\* C21: a status request that runs while the job's task runs answers with a
\* results list exactly when the status it read is completed, and that list
\* is, then and in every later state, the whole of the job's Results; for a
\* status of pending, in_progress or failed the results are null.
C21_ResultsOnlyWhenCompleted ==
    Answered =>
        /\ req.response.status \in Statuses
        /\ req.response.results.tag = "list" <=> req.response.status = "completed"
        /\ req.response.results.tag = "none" <=>
               req.response.status \in {"pending", "in_progress", "failed"}
        /\ req.response.results.tag = "list" =>
               req.response.results.val = StoredRows(req.job_id)

\* A completed job with a Result has been read and its Result returned.
C21_Witness ==
    /\ Answered
    /\ req.response.status = "completed"
    /\ Len(req.response.results.val) >= 1

\* C22: completed_at is written exactly once for every job that reaches a
\* terminal status and for no other job; the write that stores it is the
\* write that takes the status from a non-terminal value to completed or
\* failed; and once it is stored no later write touches the job's row.
C22_CompletedAtOnce ==
    /\ [](\A j \in JobIds : Submitted(j) =>
            /\ hist[j].stamps <= 1
            /\ hist[j].stamps = 1 <=> jobs[j].status \in Terminal
            /\ hist[j].stamps = 1 <=> jobs[j].completed_at = Timestamp
            /\ hist[j].stamps = 0 <=> jobs[j].completed_at = NULL)
    /\ [][\A j \in JobIds :
            /\ Submitted(j) /\ hist'[j].stamps # hist[j].stamps =>
                  /\ jobs[j].status \notin Terminal
                  /\ jobs'[j].status \in Terminal
                  /\ jobs[j].completed_at = NULL
                  /\ jobs'[j].completed_at = Timestamp
            /\ Submitted(j) /\ jobs[j].completed_at # NULL =>
                  jobs'[j] = jobs[j]]_vars

\* A job whose completed write raised has been written failed by the except
\* clause, which stored completed_at for the first and only time.
C22_Witness ==
    \E j \in JobIds :
        /\ Finished(j)
        /\ hist[j].raised
        /\ RemoteCompleted(j)
        /\ jobs[j].status = "failed"
        /\ hist[j].stamps = 1

\* The header is absent, empty or not the configured key.
WrongKey(x_api_key) == x_api_key \in ApiKeys \ {app_api_key}

\* C23: both endpoints check the API key first.  A POST /crawl whose key is
\* absent, empty or different is answered 401, creates no Job and adds no
\* task; a GET /crawl/{job_id} with such a key is answered 401 and reads
\* neither Job nor Results; every Job in the store and every read of the
\* store comes from a request that carried exactly the configured key.
C23_KeyCheckedFirst ==
    /\ \A j \in JobIds :
        /\ hist[j].answer # NoAnswer /\ WrongKey(hist[j].key) =>
              /\ hist[j].answer = Unauthorized
              /\ ~Submitted(j)
              /\ hist[j].tasks = 0
              /\ task[j] = [IdleTask EXCEPT !.pc = "denied"]
        /\ hist[j].answer # NoAnswer /\ ~WrongKey(hist[j].key) =>
              hist[j].answer # Unauthorized
        /\ Submitted(j) \/ hist[j].tasks > 0 => hist[j].key = app_api_key
    /\ req.pc # "idle" /\ WrongKey(req.key) =>
          /\ req.pc = "answered"
          /\ req.response = ErrorAnswer(401)
          /\ req.reads = 0
    /\ req.pc # "idle" /\ ~WrongKey(req.key) => req.response.code # 401
    /\ req.reads > 0 => req.key = app_api_key

\* A POST /crawl with another key and a GET /crawl/{job_id} with an empty key
\* have both been answered 401.
C23_Witness ==
    \E j \in JobIds :
        /\ hist[j].key = "key-2"
        /\ hist[j].answer = Unauthorized
        /\ req.key = ""
        /\ req.response.code = 401

\* start_firecrawl_job is running: it is about to POST or is asleep.
Starting(j) == task[j].pc \in {"start", "start_sleep"}

\* C24: start_firecrawl_job sends at most max_retries POSTs; a 200 answer
\* ends it at once with that answer's id and no POST follows; it sleeps 2
\* time units after every failed attempt but the last, so max_retries - 1
\* times at most; and after max_retries failed attempts, of whatever kind, it
\* returns none: no step of it enters the task's except clause.
C24_StartRetries ==
    /\ [](\A j \in JobIds :
            /\ hist[j].startCalls <= max_retries
            /\ task[j].pc = "start" =>
                  /\ ~hist[j].startReturned
                  /\ hist[j].startCalls < max_retries
                  /\ hist[j].startCalls > 0 => hist[j].startLast # "ok"
                  /\ hist[j].waited = start_wait_time * hist[j].startCalls
            /\ task[j].pc = "start_sleep" =>
                  /\ ~hist[j].startReturned
                  /\ hist[j].startCalls < max_retries
                  /\ hist[j].startLast # "ok"
                  /\ hist[j].waited = start_wait_time * (hist[j].startCalls - 1)
            /\ hist[j].startReturned =>
                  /\ hist[j].waited = start_wait_time * (hist[j].startCalls - 1)
                  /\ hist[j].startLast # "ok" =>
                        /\ hist[j].startCalls = max_retries
                        /\ hist[j].startNone
                        /\ hist[j].startId = NULL)
    /\ [][\A j \in JobIds :
            /\ Starting(j) => task'[j].pc # "handler" /\ hist'[j].raised = hist[j].raised
            /\ hist[j].startReturned =>
                  /\ hist'[j].startCalls = hist[j].startCalls
                  /\ hist'[j].waited = hist[j].waited
            /\ hist'[j].startCalls # hist[j].startCalls /\ hist'[j].startLast = "ok" =>
                  /\ hist'[j].startReturned
                  /\ ~Starting(j)'
                  /\ task'[j].firecrawl_job_id = hist'[j].startId]_vars

\* The third POST was answered 200 with an id after two failures and two
\* sleeps.
C24_Witness ==
    \E j \in JobIds :
        /\ hist[j].startReturned
        /\ hist[j].startCalls = max_retries
        /\ hist[j].startLast = "ok"
        /\ hist[j].startId # NULL
        /\ hist[j].waited = start_wait_time * (max_retries - 1)

\* The task of job j takes a step.
Steps(j) == task'[j] # task[j]

\* C25: an iteration of the poll loop compares elapsed with the timeout
\* before it sends its query.  An iteration begun with elapsed above the
\* timeout sends none and makes the loop return (none, the timed-out
\* reason); an iteration begun at or below the timeout sends its query; and
\* the only way to the next iteration, and so to the next query, is the
\* sleep of one poll interval.
C25_CheckThenQueryThenSleep ==
    [][\A j \in JobIds :
        /\ Steps(j) /\ task[j].pc = "poll" /\ task[j].elapsed > crawl_timeout_seconds =>
              /\ hist'[j].returned
              /\ hist'[j].final = TimeoutExit
              /\ hist'[j].pollError = TimeoutMsg
              /\ task'[j].crawled_data = PyNone
              /\ task'[j].pc = "write_failed"
              /\ task'[j].error_msg = TimeoutMsg
              /\ hist'[j].polled = hist[j].polled
              /\ hist'[j].consec = hist[j].consec
              /\ hist'[j].undecoded = hist[j].undecoded
        /\ Steps(j) /\ task[j].pc = "poll" /\ task[j].elapsed <= crawl_timeout_seconds =>
              /\ hist'[j].polled
              /\ hist'[j].final # TimeoutExit
              /\ hist'[j].pollError # TimeoutMsg
              /\ task'[j].pc # "poll"
              /\ ~hist'[j].returned <=> task'[j].pc = "poll_sleep"
        /\ Steps(j) /\ task'[j].pc = "poll" =>
              task[j].pc \in {"store_id", "poll_sleep"}
        /\ Steps(j) /\ task[j].pc = "poll_sleep" =>
              /\ task'[j].pc = "poll"
              /\ task'[j].elapsed = Advance(task[j].elapsed, polling_interval_seconds)
              /\ hist'[j].polled /\ ~hist'[j].returned
        /\ hist[j].returned => hist'[j].returned /\ hist'[j].final = hist[j].final]_vars

\* After at least one query the loop began an iteration past the timeout and
\* returned the timed-out reason, which the task is about to store.
C25_Witness ==
    \E j \in JobIds :
        /\ task[j].pc = "write_failed"
        /\ hist[j].polled
        /\ hist[j].final = TimeoutExit
        /\ task[j].error_msg = TimeoutMsg

\* C26: poll_firecrawl_status returns something other than none as its data
\* only on a 200 answer whose remote status is completed, and then it is that
\* answer's data member; every other exit (timeout, error ceiling, remote
\* failure, fatal error) returns none with a reason; and a job is completed
\* only if the poll returned on such an answer, with a non-empty list.
C26_PagesOnlyWhenCompleted ==
    \A j \in JobIds :
        /\ ~hist[j].returned => task[j].crawled_data = PyNone
        /\ hist[j].returned /\ ~RemoteCompleted(j) =>
              /\ task[j].crawled_data = PyNone
              /\ Truthy(hist[j].pollError)
        /\ hist[j].returned /\ task[j].crawled_data # PyNone =>
              /\ RemoteCompleted(j)
              /\ task[j].crawled_data = DataOf(hist[j].final)
              /\ hist[j].pollError = NULL
        /\ Submitted(j) /\ jobs[j].status = "completed" =>
              /\ hist[j].returned
              /\ RemoteCompleted(j)
              /\ task[j].crawled_data.tag = "list"
              /\ Len(task[j].crawled_data.val) >= 1

\* The HTTP client raised outside the loop's inner try block: the poll
\* returned none with the fatal reason and the job ended failed with it.
C26_Witness ==
    \E j \in JobIds :
        /\ Finished(j)
        /\ hist[j].final.kind = "fatal"
        /\ task[j].crawled_data = PyNone
        /\ jobs[j].status = "failed"
        /\ jobs[j].error = FatalErrorMsg(ClientError)

\* C27: a 200 answer whose body cannot be decoded counts toward the ceiling
\* like a connection error or a non-200 answer: once 5 status checks in a
\* row have been answered that way the poll loop has returned its
\* repeated-failure error, and the job then ends failed with it (the Job
\* Store accepting the writes).
C27_UndecodableCounts ==
    \A j \in JobIds :
        hist[j].undecoded >= max_consecutive_errors =>
            /\ hist[j].returned
            /\ hist[j].pollError = PollingErrorMsg(DecodeError)
            /\ Finished(j) /\ StoreOk(j) =>
                  /\ jobs[j].status = "failed"
                  /\ jobs[j].error = PollingErrorMsg(DecodeError)

\* The descriptions of the exceptions that reach the task's except clause.
Descriptions == {DbError, NotIterable}

\* C28: an exception raised in steps 1-5 of process_crawl_job is caught by
\* its except clause, and when the task is over the job is failed with the
\* error "Internal error: " followed by the exception's description.
C28_CaughtAsInternalError ==
    \A j \in JobIds :
        hist[j].raised /\ task[j].pc \in {"done", "escaped"} =>
            /\ jobs[j].status = "failed"
            /\ \E desc \in Descriptions : jobs[j].error = InternalErrorMsg(desc)

\* poll_firecrawl_status has been entered.
PollEntered(j) ==
    hist[j].polled \/ hist[j].returned \/ task[j].pc \in {"poll", "poll_sleep"}

\* C29: failures are terminal.  Once the poll loop has been entered the start
\* endpoint is not called again; and once a terminal status is stored the
\* task is over: no step of it follows, so no start call, no status query,
\* no Result and no status write is made for the job.
C29_FailuresTerminal ==
    /\ [](\A j \in JobIds :
            /\ PollEntered(j) => hist[j].startReturned /\ hist[j].startId # NULL
            /\ Submitted(j) /\ jobs[j].status \in Terminal => Finished(j))
    /\ [][\A j \in JobIds :
            /\ PollEntered(j) =>
                  /\ hist'[j].startCalls = hist[j].startCalls
                  /\ task'[j].pc \notin {"start", "start_sleep"}
            /\ Submitted(j) /\ jobs[j].status \in Terminal =>
                  /\ jobs'[j] = jobs[j]
                  /\ task'[j] = task[j]
                  /\ hist'[j] = hist[j]
                  /\ get_results_by_job_id(results', j) = get_results_by_job_id(results, j)]_vars

\* The poll gave up at the error ceiling and the failed job is at rest with
\* the start endpoint called once.
C29_Witness ==
    \E j \in JobIds :
        /\ Finished(j)
        /\ jobs[j].status = "failed"
        /\ hist[j].startCalls = 1
        /\ hist[j].consec >= max_consecutive_errors

\* C30: a job whose status is failed owns no Result, whatever made it fail.
C30_FailedOwnsNoResults ==
    \A j \in JobIds :
        Submitted(j) /\ jobs[j].status = "failed" =>
            get_results_by_job_id(results, j) = <<>>

\* C31: every return of poll_firecrawl_status is either (pages, no error) or
\* (none, a non-empty reason): never none with no reason, and never pages
\* with a reason.
C31_PagesXorReason ==
    \A j \in JobIds :
        hist[j].returned =>
            \/ task[j].crawled_data # PyNone /\ hist[j].pollError = NULL
            \/ task[j].crawled_data = PyNone /\ Truthy(hist[j].pollError)

\* The process that ran the task of job j exited before the task returned.
Lost(j) == task[j].pc = "lost"

\* No task works on job j any more although its status is not terminal: its
\* process exited, or its task ended on an exception, or none was queued.
NoTask(j) == task[j].pc \in {"lost", "escaped", "rejected"}

\* C32: when the process exits while a job is pending or in_progress, no
\* task is left for the job and nothing resumes it.  From then on, across
\* restarts and while the new process serves other jobs, its record keeps
\* the status and fields last committed, its Results stay as they are, no
\* start call and no status query is made for it, and its status is never
\* terminal.
C32_NoResume ==
    /\ [](\A j \in ConcJobIds :
            /\ Lost(j) =>
                  /\ Submitted(j)
                  /\ jobs[j].status \in {"pending", "in_progress"}
                  /\ jobs[j].completed_at = NULL
            /\ ~proc.up => task[j].pc \notin RunningPcs
            /\ ~proc.up /\ Submitted(j) /\ jobs[j].status \notin Terminal => NoTask(j))
    /\ [][\A j \in ConcJobIds :
            /\ proc.up /\ ~proc'.up /\ task[j].pc \in RunningPcs =>
                  /\ jobs[j].status \in {"pending", "in_progress"}
                  /\ Lost(j)'
            /\ NoTask(j) =>
                  /\ task'[j] = task[j]
                  /\ Submitted(j) => jobs'[j] = jobs[j]
                  /\ hist'[j] = hist[j]
                  /\ get_results_by_job_id(results', j) =
                         get_results_by_job_id(results, j)]_vars

\* The first process exited while it polled for job j1; the process started
\* after it has run job j2 to completed, and j1 is still in_progress with
\* its remote id.
C32_Witness ==
    /\ proc.restarts >= 1
    /\ Lost("j1")
    /\ jobs["j1"].status = "in_progress"
    /\ jobs["j1"].firecrawl_job_id # NULL
    /\ hist["j1"].polled
    /\ "j2" \in DOMAIN jobs
    /\ jobs["j2"].status = "completed"

====
